---- MODULE Spec2Model ----
(***************************************************************************)
(* A model of the product-intelligence backend: the query parser, the      *)
(* subset-constrained retriever, the clarification engine, the orchestrator*)
(* (run_agent), the in-memory session store and the /chat handler.         *)
(*                                                                         *)
(* Text is modelled by strings, read character by character, so that the   *)
(* regular expressions, upper(), lower(), split() and the substring tests  *)
(* of the source are computed and not assumed.  A Python dict is a         *)
(* function whose DOMAIN is the dict's key set; a Python list is a         *)
(* sequence; list positions are 0-based as in the source.                  *)
(***************************************************************************)
EXTENDS Integers, Sequences, FiniteSets, TLC

VARIABLES
    catalog,      \* data/tools.json, the list every module loads
    op,           \* SpecCalls: which function the drawn call applies
    phase,        \* SpecCalls: "call" before the function ran, "ret" after
    query,        \* SpecCalls: the query argument
    top_k,        \* SpecCalls: the top_k argument
    use_filters,  \* SpecCalls: the use_filters argument of retrieve_tools
    subset,       \* SpecCalls: catalog positions of filtered_tools, ascending
    ranking,      \* SpecCalls: the index's similarity order for the query
    matched,      \* SpecCalls: matched_indices of semantic_search_on_subset
    result,       \* SpecCalls: the list the function returned
    given_session,  \* SpecCalls: the session argument of run_agent, EmptyDict for None
    agent_response, \* SpecCalls: the dict run_agent returned
    drawn_filters,  \* SpecCalls: the filters argument
    more_filters,   \* SpecCalls: the filters argument of a second apply_metadata_filters
    verdict,        \* SpecCalls: the boolean needs_clarification returned
    search_text,    \* SpecCalls: enhanced_query, the text run_agent gave retrieve_tools
    turn_filters,   \* merged_filters of the last run_agent; SpecCalls: of extract_filters
    sessions,     \* session_manager.sessions: session id -> session dict
    now,          \* datetime.now(), in clock ticks
    turn,         \* the request the backend served last
    recorded,     \* per live session id: update_session calls since its creation
    heap,         \* SpecThreads: the session dict objects, by address
    session_refs, \* SpecThreads: session_manager.sessions, session id -> address
    threads,      \* SpecThreads: per worker thread, the frame of the request it serves
    started       \* SpecThreads: requests received so far

callVars ==
    <<op, phase, query, top_k, use_filters, subset, ranking, matched, result,
      given_session, agent_response, drawn_filters, more_filters, verdict, search_text,
      turn_filters>>

storeVars == <<sessions, now, turn, recorded>>

threadVars == <<heap, session_refs, threads, started>>

vars == <<catalog, callVars, storeVars, threadVars>>

(***************************************************************************)
(* Bounds of the model.                                                    *)
(***************************************************************************)
MaxCatalog == 3

MaxTopK == 2

\* the last clock tick
MaxNow == 2

\* turns recorded in the conversation histories of the live sessions
MaxTurns == 2

\* requests the worker threads of SpecThreads receive
MaxRequests == 3

\* turns recorded in the conversation history of the session of SpecDialogue
MaxDialogueTurns == 3

(***************************************************************************)
(* Catalog records (data/tools.json): the fields the backend reads.        *)
(***************************************************************************)
CordlessNutrunner ==
    [tool_name |-> "Cordless Nutrunner", category |-> "Nutrunner",
     application_type |-> "Manual / Portable", voltage |-> "18V DC",
     torque_range |-> "5-100 Nm", ip_rating |-> "IP54"]

HandheldNutrunner ==
    [tool_name |-> "Handheld Nutrunner", category |-> "Nutrunner",
     application_type |-> "Manual / Portable", voltage |-> "18V DC",
     torque_range |-> "2-80 Nm", ip_rating |-> "IP54"]

ElectricNutrunner ==
    [tool_name |-> "Electric Nutrunner", category |-> "Nutrunner",
     application_type |-> "Automation", voltage |-> "230V AC",
     torque_range |-> "10~200 Nm", ip_rating |-> "IP40"]

PneumaticNutrunner ==
    [tool_name |-> "Pneumatic Nutrunner", category |-> "Nutrunner",
     application_type |-> "Manual", voltage |-> "",
     torque_range |-> "NaN", ip_rating |-> "IP40"]

TorqueController ==
    [tool_name |-> "Torque Controller", category |-> "Controller",
     application_type |-> "Control System", voltage |-> "230V AC",
     torque_range |-> "NaN", ip_rating |-> "IP40"]

ManualScrewdriver ==
    [tool_name |-> "Manual Screwdriver", category |-> "Screwdriver",
     application_type |-> "Manual", voltage |-> "",
     torque_range |-> "", ip_rating |-> "ip40"]

TorqueTester ==
    [tool_name |-> "Torque Tester", category |-> "Tester",
     application_type |-> "Quality / Verification", voltage |-> "230v ac",
     torque_range |-> "up to 50 Nm", ip_rating |-> "IP54"]

\* the records the drawn catalogs of SpecCalls are built from
ToolPool == {CordlessNutrunner, ElectricNutrunner}

DrawnCatalogs == UNION {[1..n -> ToolPool] : n \in 1..MaxCatalog}

\* the similarity orders an index over at most n vectors can return: every
\* label at most once
Rankings(n) ==
    {r \in UNION {[1..m -> 0..(n - 1)] : m \in 0..n} :
        \A i, j \in 1..Len(r) : i # j => r[i] # r[j]}

Positions(tools) == 0..(Len(tools) - 1)

\* the sublist of `tools` at the positions of `positions`, in catalog order
tools_at(tools, positions) ==
    LET kept == SelectSeq([i \in 1..Len(tools) |-> i - 1], LAMBDA p : p \in positions)
    IN  [j \in 1..Len(kept) |-> tools[kept[j] + 1]]

Queries ==
    {"nutrunner", "18V", "tool", "400v nutrunner", "IP40 controller",
     "18 v cordless nutrunner for 50Nm"}

ShopCatalog ==
    <<CordlessNutrunner, HandheldNutrunner, ElectricNutrunner, PneumaticNutrunner,
      TorqueController>>

\* the catalog of the drawn apply_metadata_filters calls of SpecCalls
FilterCatalog == ShopCatalog \o <<ManualScrewdriver, TorqueTester>>

SessionIds == {"s1", "s2"}

\* the queries of the turns of Spec
ChatQueries == {"nutrunner", "18V", "400V"}

\* the queries of the drawn run_agent calls of SpecCalls
AgentQueries == ChatQueries \cup {"tool", "portable", "i need help", "IP54 nutrunner"}

\* the similarity order of the index over ShopCatalog in the turns of Spec
ChatRankings == {<<0, 1, 2, 3, 4>>}

\* the similarity orders of the drawn run_agent calls of SpecCalls
AgentRankings == ChatRankings \cup {<<4, 3, 2, 1, 0>>, <<2, 4>>, <<>>}

\* the queries of the drawn extract_filters calls of SpecCalls
ExtractQueries ==
    {"manual portable", "Portable MANUAL tool", "manual", "manually fed", "cordless",
     "automated line", "assembly line", "control system automation", "manual controller",
     "controller", "verification of automation", "calibration", "nutrunner"}

\* the queries of the drawn needs_clarification calls of SpecCalls
ClarifyQueries ==
    {"nutrunner", "Cordless Nutrunner", "show me a nutrunner", "tool", "i need help",
     "18V", "18V portable"}

\* every text a model run hands to the parser: the queries and, for a
\* refinement turn, the previous query followed by the current one
KnownTexts ==
    Queries \cup AgentQueries \cup ClarifyQueries
        \cup {a \o " " \o b : a \in AgentQueries, b \in AgentQueries}

KnownCatalogs == DrawnCatalogs \cup {ShopCatalog, FilterCatalog}

(***************************************************************************)
(* Python built-ins used by the source.                                    *)
(***************************************************************************)
Min(a, b) == IF a <= b THEN a ELSE b

CharAt(s, i) == SubSeq(s, i, i)

Digits == {"0", "1", "2", "3", "4", "5", "6", "7", "8", "9"}

Whitespace == {" ", "\t", "\n"}

\* the letters str.lower() changes, each with its lower-case letter
ToLower ==
    [A |-> "a", B |-> "b", C |-> "c", D |-> "d", E |-> "e", F |-> "f",
     G |-> "g", H |-> "h", I |-> "i", J |-> "j", K |-> "k", L |-> "l",
     M |-> "m", N |-> "n", O |-> "o", P |-> "p", Q |-> "q", R |-> "r",
     S |-> "s", T |-> "t", U |-> "u", V |-> "v", W |-> "w", X |-> "x",
     Y |-> "y", Z |-> "z"]

\* the letters str.upper() changes, each with its upper-case letter
ToUpper ==
    [a |-> "A", b |-> "B", c |-> "C", d |-> "D", e |-> "E", f |-> "F",
     g |-> "G", h |-> "H", i |-> "I", j |-> "J", k |-> "K", l |-> "L",
     m |-> "M", n |-> "N", o |-> "O", p |-> "P", q |-> "Q", r |-> "R",
     s |-> "S", t |-> "T", u |-> "U", v |-> "V", w |-> "W", x |-> "X",
     y |-> "Y", z |-> "Z"]

LowerChar(c) == IF c \in DOMAIN ToLower THEN ToLower[c] ELSE c

UpperChar(c) == IF c \in DOMAIN ToUpper THEN ToUpper[c] ELSE c

RECURSIVE str_lower(_)
str_lower(s) ==
    IF Len(s) = 0 THEN "" ELSE LowerChar(CharAt(s, 1)) \o str_lower(SubSeq(s, 2, Len(s)))

RECURSIVE str_upper(_)
str_upper(s) ==
    IF Len(s) = 0 THEN "" ELSE UpperChar(CharAt(s, 1)) \o str_upper(SubSeq(s, 2, Len(s)))

\* s.replace(" ", "")
RECURSIVE str_remove_spaces(_)
str_remove_spaces(s) ==
    IF Len(s) = 0 THEN ""
    ELSE (IF CharAt(s, 1) = " " THEN "" ELSE CharAt(s, 1))
             \o str_remove_spaces(SubSeq(s, 2, Len(s)))

\* sub in s
str_contains(s, sub) ==
    \E i \in 1..(Len(s) - Len(sub) + 1) : SubSeq(s, i, i + Len(sub) - 1) = sub

\* s.strip()
RECURSIVE str_strip(_)
str_strip(s) ==
    IF Len(s) = 0 THEN ""
    ELSE IF CharAt(s, 1) \in Whitespace THEN str_strip(SubSeq(s, 2, Len(s)))
    ELSE IF CharAt(s, Len(s)) \in Whitespace THEN str_strip(SubSeq(s, 1, Len(s) - 1))
    ELSE s

\* s.split(): the maximal runs of non-whitespace characters, in order
RECURSIVE str_split_from(_, _, _)
str_split_from(s, i, word) ==
    IF i > Len(s) THEN (IF word = "" THEN <<>> ELSE <<word>>)
    ELSE IF CharAt(s, i) \in Whitespace
         THEN (IF word = "" THEN <<>> ELSE <<word>>) \o str_split_from(s, i + 1, "")
         ELSE str_split_from(s, i + 1, word \o CharAt(s, i))

str_split(s) == str_split_from(s, 1, "")

DigitVal(c) == CHOOSE d \in 0..9 : CharAt("0123456789", d + 1) = c

\* int(s) for a string of decimal digits
RECURSIVE str_int(_)
str_int(s) ==
    IF Len(s) = 0 THEN 0
    ELSE 10 * str_int(SubSeq(s, 1, Len(s) - 1)) + DigitVal(CharAt(s, Len(s)))

\* the end of the maximal run of characters of `class` that starts at i (i - 1 when empty)
RECURSIVE run_end(_, _, _)
run_end(s, i, class) ==
    IF i <= Len(s) /\ CharAt(s, i) \in class THEN run_end(s, i + 1, class) ELSE i - 1

\* lst[:k] for k >= 0
list_prefix(lst, k) == SubSeq(lst, 1, Min(k, Len(lst)))

\* lst[i] with Python's negative indices (the source never indexes out of range here)
list_get(lst, i) == IF i >= 0 THEN lst[i + 1] ELSE lst[Len(lst) + i + 1]

\* lst.index(x): the first 0-based position holding a value equal to x
list_index(lst, x) ==
    (CHOOSE i \in 1..Len(lst) : lst[i] = x /\ \A j \in 1..(i - 1) : lst[j] # x) - 1

\* {**a, **b} and a.update(b)
dict_merge(a, b) ==
    [k \in (DOMAIN a) \cup (DOMAIN b) |-> IF k \in DOMAIN b THEN b[k] ELSE a[k]]

EmptyDict == [k \in {} |-> 0]

\* The tables named ...OfKnown... hold a function of the source on the
\* finitely many texts and catalogs of the model, so that TLC computes it
\* once per argument (f @@ EmptyDict is f, enumerated).

(***************************************************************************)
(* query_parser.py                                                         *)
(***************************************************************************)
FilterKeys == {"voltage", "torque", "ip_rating", "application_type"}

\* re.search for a pattern that matches from a start position in one way
\* only: ends[i] is where the match that starts at i ends (0: none starts
\* there); the result is <<start, end>> of the leftmost match, <<0, 0>>
\* when there is none
re_search(ends) ==
    IF \A i \in DOMAIN ends : ends[i] = 0 THEN <<0, 0>>
    ELSE LET i == CHOOSE i \in DOMAIN ends : ends[i] # 0 /\ \A j \in 1..(i - 1) : ends[j] = 0
         IN  <<i, ends[i]>>

\* re.search(r'(\d+\s?V)', query, re.IGNORECASE)
voltage_match_at(q, i) ==
    LET d == run_end(q, i, Digits)
        v == IF d + 1 <= Len(q) /\ CharAt(q, d + 1) \in Whitespace THEN d + 2 ELSE d + 1
    IN  IF d >= i /\ v <= Len(q) /\ CharAt(q, v) \in {"V", "v"} THEN v
        ELSE IF d >= i /\ d + 1 <= Len(q) /\ CharAt(q, d + 1) \in {"V", "v"} THEN d + 1
        ELSE 0

voltage_match(q) == re_search([i \in 1..Len(q) |-> voltage_match_at(q, i)])

\* re.search(r'(\d+)\s*Nm', query, re.IGNORECASE): <<start, end of group 1>>
torque_match_at(q, i) ==
    LET d == run_end(q, i, Digits)
        w == run_end(q, d + 1, Whitespace)
    IN  IF /\ d >= i
           /\ w + 2 <= Len(q)
           /\ CharAt(q, w + 1) \in {"N", "n"}
           /\ CharAt(q, w + 2) \in {"M", "m"}
        THEN d ELSE 0

torque_match(q) == re_search([i \in 1..Len(q) |-> torque_match_at(q, i)])

\* re.search(r'(IP\d+)', query, re.IGNORECASE)
ip_match_at(q, i) ==
    LET d == run_end(q, i + 2, Digits)
    IN  IF /\ i + 2 <= Len(q)
           /\ CharAt(q, i) \in {"I", "i"}
           /\ CharAt(q, i + 1) \in {"P", "p"}
           /\ d >= i + 2
        THEN d ELSE 0

ip_match(q) == re_search([i \in 1..Len(q) |-> ip_match_at(q, i)])

\* the chain with "manual" tested first and alone
application_type_manual_first(query_lower) ==
    IF str_contains(query_lower, "manual") THEN "Manual"
    ELSE IF str_contains(query_lower, "cordless") \/ str_contains(query_lower, "portable")
    THEN "Manual / Portable"
    ELSE IF \/ str_contains(query_lower, "automation")
            \/ str_contains(query_lower, "assembly line")
            \/ str_contains(query_lower, "automated")
    THEN "Automation"
    ELSE IF str_contains(query_lower, "controller") \/ str_contains(query_lower, "control system")
    THEN "Control System"
    ELSE IF str_contains(query_lower, "verification") \/ str_contains(query_lower, "calibration")
    THEN "Quality / Verification"
    ELSE ""

\* the if / elif chain of extract_filters: "" when no branch is taken
application_type_of(query_lower) ==
    IF str_contains(query_lower, "cordless") \/ str_contains(query_lower, "portable")
    THEN "Manual / Portable"
    ELSE IF \/ str_contains(query_lower, "automation")
            \/ str_contains(query_lower, "assembly line")
            \/ str_contains(query_lower, "automated")
    THEN "Automation"
    ELSE IF str_contains(query_lower, "manual") /\ ~str_contains(query_lower, "portable")
    THEN "Manual"
    ELSE IF str_contains(query_lower, "controller") \/ str_contains(query_lower, "control system")
    THEN "Control System"
    ELSE IF str_contains(query_lower, "verification") \/ str_contains(query_lower, "calibration")
    THEN "Quality / Verification"
    ELSE ""

\* lines 19-44 for the matches of lines 18, 23 and 28 and the application
\* type of lines 33-42
collect_filters(q, vm, tm, im, app) ==
    LET keys == {k \in FilterKeys :
                    \/ k = "voltage" /\ vm[1] # 0
                    \/ k = "torque" /\ tm[1] # 0
                    \/ k = "ip_rating" /\ im[1] # 0
                    \/ k = "application_type" /\ app # ""}
    IN  [k \in keys |->
            CASE k = "voltage" -> str_upper(str_remove_spaces(SubSeq(q, vm[1], vm[2])))
              [] k = "torque" -> str_int(SubSeq(q, tm[1], tm[2]))
              [] k = "ip_rating" -> str_upper(SubSeq(q, im[1], im[2]))
              [] k = "application_type" -> app]

extract_filters(q) ==
    collect_filters(q, voltage_match(q), torque_match(q), ip_match(q),
                    application_type_of(str_lower(q)))

\* extract_filters on a text of KnownTexts, computed once per text
FiltersOfKnownText == [q \in KnownTexts |-> extract_filters(q)] @@ EmptyDict

extract_filters_memo(q) ==
    IF q \in KnownTexts THEN FiltersOfKnownText[q] ELSE extract_filters(q)

\* The source's en dash is written EnDash here: a module holds ASCII only.
EnDash == "~"

\* r'(\d+)[en dash or hyphen](\d+)' from position i: <<end of group 1, end of group 2>>
range_match_at(s, i) ==
    LET d == run_end(s, i, Digits)
        e == run_end(s, d + 2, Digits)
    IN  IF d >= i /\ d + 1 <= Len(s) /\ CharAt(s, d + 1) \in {EnDash, "-"} /\ e >= d + 2
        THEN <<d, e>> ELSE <<0, 0>>

\* lines 116-118 with the upper bound excluded
torque_within_match_exclusive(requested_torque, torque_range, i, m) ==
    /\ str_int(SubSeq(torque_range, i, m[1])) <= requested_torque
    /\ requested_torque < str_int(SubSeq(torque_range, m[1] + 2, m[2]))

\* lines 116-118 for the match that starts at i
torque_within_match(requested_torque, torque_range, i, m) ==
    /\ str_int(SubSeq(torque_range, i, m[1])) <= requested_torque
    /\ requested_torque <= str_int(SubSeq(torque_range, m[1] + 2, m[2]))

\* lines 114-120 for the start of the leftmost match (0: no match)
torque_within(requested_torque, torque_range, i) ==
    IF i = 0 THEN FALSE
    ELSE torque_within_match(requested_torque, torque_range, i,
                             range_match_at(torque_range, i))

_torque_in_range(requested_torque, torque_range) ==
    IF Len(torque_range) = 0 THEN FALSE
    ELSE IF torque_range = "NaN" \/ str_strip(torque_range) = "" THEN FALSE
    ELSE torque_within(requested_torque, torque_range,
             re_search([i \in 1..Len(torque_range) |->
                           range_match_at(torque_range, i)[1]])[1])

\* lines 64-68
filter_by_voltage(tools, filters) ==
    IF "voltage" \in DOMAIN filters
    THEN SelectSeq(tools, LAMBDA tool :
             str_contains(str_upper(tool.voltage), filters["voltage"]))
    ELSE tools

\* lines 71-75
filter_by_ip_rating(tools, filters) ==
    IF "ip_rating" \in DOMAIN filters
    THEN SelectSeq(tools, LAMBDA tool : str_upper(tool.ip_rating) = filters["ip_rating"])
    ELSE tools

\* lines 78-82
filter_by_application_type(tools, filters) ==
    IF "application_type" \in DOMAIN filters
    THEN SelectSeq(tools, LAMBDA tool :
             tool.application_type = filters["application_type"])
    ELSE tools

\* lines 85-90
filter_by_torque(tools, filters) ==
    IF "torque" \in DOMAIN filters
    THEN SelectSeq(tools, LAMBDA tool :
             _torque_in_range(filters["torque"], tool.torque_range))
    ELSE tools

apply_metadata_filters(tools, filters) ==
    IF DOMAIN filters = {} THEN tools
    ELSE filter_by_torque(
             filter_by_application_type(
                 filter_by_ip_rating(filter_by_voltage(tools, filters), filters),
                 filters),
             filters)

\* the FilterSets with every key, over the values the drawn FilterSets hold
FullFilterSets ==
    [voltage : {"18V", "230V"}, torque : {50, 100, 150}, ip_rating : {"IP54", "IP40"},
     application_type : {"Manual", "Automation"}]

\* every FilterSet over a subset of the keys, with those values
DrawnFilterSets == {[k \in ks |-> f[k]] : f \in FullFilterSets, ks \in SUBSET FilterKeys}

\* the FilterSets of the drawn needs_clarification calls: one per key set
ClarifyFilterSets ==
    {[k \in ks |-> [voltage |-> "18V", torque |-> 50, ip_rating |-> "IP54",
                    application_type |-> "Manual"][k]] : ks \in SUBSET FilterKeys}

\* The Metadata Filter contract: the tool passes the predicate of every key
\* the FilterSet holds.
satisfies(tool, filters) ==
    /\ "voltage" \in DOMAIN filters =>
           str_contains(str_upper(tool.voltage), filters["voltage"])
    /\ "ip_rating" \in DOMAIN filters => str_upper(tool.ip_rating) = filters["ip_rating"]
    /\ "application_type" \in DOMAIN filters =>
           tool.application_type = filters["application_type"]
    /\ "torque" \in DOMAIN filters => _torque_in_range(filters["torque"], tool.torque_range)

(***************************************************************************)
(* agents/retriever.py.  The vector index is a black box: `rank` is the    *)
(* order in which it ranks its stored vectors for the embedded query, and  *)
(* index.search(vector, k) returns the first k labels of that order,       *)
(* padded with -1 when the index stores fewer than k vectors.              *)
(***************************************************************************)
index_search(rank, k) == [j \in 1..k |-> IF j <= Len(rank) THEN rank[j] ELSE -1]

\* line 90: the catalog position list.index finds for each filtered tool
filtered_indices_of(filtered_tools, all_tools) ==
    [j \in 1..Len(filtered_tools) |-> list_index(all_tools, filtered_tools[j])]

\* line 102: the labels of the full ranking that are in filtered_indices
matched_indices_of(rank, filtered_tools, all_tools) ==
    LET filtered_indices == filtered_indices_of(filtered_tools, all_tools)
        all_indices == index_search(rank, Len(all_tools))
    IN  SelectSeq(all_indices, LAMBDA idx :
            \E j \in 1..Len(filtered_indices) : filtered_indices[j] = idx)

\* the search without the membership test of line 102
semantic_search_unfiltered(rank, filtered_tools, all_tools, k) ==
    LET kept == list_prefix(index_search(rank, Len(all_tools)), k)
        results == [j \in 1..Len(kept) |-> list_get(all_tools, kept[j])]
    IN  IF Len(results) > 0 THEN results ELSE list_prefix(filtered_tools, k)

semantic_search_on_subset(rank, filtered_tools, all_tools, k) ==
    LET matched_indices == matched_indices_of(rank, filtered_tools, all_tools)
        kept == list_prefix(matched_indices, k)
        results == [j \in 1..Len(kept) |-> list_get(all_tools, kept[j])]
    IN  IF Len(results) > 0 THEN results ELSE list_prefix(filtered_tools, k)

\* lines 54-72 without the cut to the top result of line 72
retrieve_filtered_uncut(filters, k, rank, tools) ==
    LET filtered_tools == apply_metadata_filters(tools, filters)
        indices == index_search(rank, k)
    IN  IF DOMAIN filters # {}
        THEN IF Len(filtered_tools) > 0
             THEN semantic_search_on_subset(rank, filtered_tools, tools, 1)
             ELSE <<>>
        ELSE [j \in 1..Len(indices) |-> list_get(tools, indices[j])]

\* lines 54-72 with the unfiltered search when no tool passes the filters
retrieve_filtered_fallback(filters, k, rank, tools) ==
    LET filtered_tools == apply_metadata_filters(tools, filters)
        indices == index_search(rank, k)
        results == [j \in 1..Len(indices) |-> list_get(tools, indices[j])]
    IN  IF DOMAIN filters # {} /\ Len(filtered_tools) > 0
        THEN semantic_search_on_subset(rank, filtered_tools, tools, 1)
        ELSE list_prefix(results, 1)

\* lines 54-72 for the filters of line 51
retrieve_filtered(filters, k, rank, tools) ==
    LET filtered_tools == apply_metadata_filters(tools, filters)
        indices == index_search(rank, k)
        results == [j \in 1..Len(indices) |-> list_get(tools, indices[j])]
    IN  IF DOMAIN filters # {}
        THEN IF Len(filtered_tools) > 0
             THEN semantic_search_on_subset(rank, filtered_tools, tools, 1)
             ELSE <<>>
        ELSE list_prefix(results, 1)

retrieve_tools(q, k, with_filters, rank, tools) ==
    retrieve_filtered(IF with_filters THEN extract_filters_memo(q) ELSE EmptyDict,
                      k, rank, tools)

(***************************************************************************)
(* clarification.py                                                        *)
(***************************************************************************)
seq_set(lst) == {lst[i] : i \in 1..Len(lst)}

\* str(n) for n >= 0
RECURSIVE int_str(_)
int_str(n) ==
    IF n < 10 THEN CharAt("0123456789", n + 1)
    ELSE int_str(n \div 10) \o CharAt("0123456789", (n % 10) + 1)

common_words ==
    {"the", "a", "an", "for", "with", "and", "or", "-",
     "tool", "machine", "device", "equipment", "system"}

\* The keyword set is cached after the first load; the catalog never
\* changes, so every load gives the set computed here.
_load_tool_names(tools) ==
    LET names == {str_lower(tools[i].tool_name) :
                     i \in {j \in 1..Len(tools) : tools[j].tool_name # ""}}
        name_words == UNION {seq_set(str_split(n)) : n \in names}
        cat_words == UNION {seq_set(str_split(str_lower(tools[i].category))) :
                               i \in {j \in 1..Len(tools) : tools[j].category # ""}}
    IN  (names \cup name_words \cup cat_words) \ common_words

\* _tool_names_cache: the keyword set of each catalog, computed once
ToolNamesOfKnownCatalog ==
    [tools \in KnownCatalogs |-> _load_tool_names(tools)] @@ EmptyDict

_tool_names_cache(tools) ==
    IF tools \in KnownCatalogs THEN ToolNamesOfKnownCatalog[tools] ELSE _load_tool_names(tools)

\* any(tool_keyword in query_lower for tool_keyword in specific_tools)
has_specific_tool_in(q, tools) ==
    \E tool_keyword \in _tool_names_cache(tools) : str_contains(str_lower(q), tool_keyword)

SpecificToolInKnownText ==
    [ct \in KnownCatalogs \X KnownTexts |-> has_specific_tool_in(ct[2], ct[1])] @@ EmptyDict

has_specific_tool_memo(q, tools) ==
    IF tools \in KnownCatalogs /\ q \in KnownTexts
    THEN SpecificToolInKnownText[<<tools, q>>]
    ELSE has_specific_tool_in(q, tools)

generic_terms == {"tool", "machine", "device", "equipment"}

vague_phrases ==
    {"i want", "i need", "looking for", "show me", "give me", "find me", "help with"}

\* what needs_clarification reads off the query text alone (lines 82-83, 103-110)
query_shape(q) ==
    LET query_lower == str_lower(q)
        query_words == str_split(query_lower)
    IN  [n_words |-> Len(query_words),
         has_generic_term |-> \E term \in generic_terms : term \in seq_set(query_words),
         has_vague_phrase |->
             \E phrase \in vague_phrases : str_contains(query_lower, phrase)]

ShapeOfKnownText == [q \in KnownTexts |-> query_shape(q)] @@ EmptyDict

query_shape_memo(q) == IF q \in KnownTexts THEN ShapeOfKnownText[q] ELSE query_shape(q)

\* lines 86-128 without the test of generic terms and vague phrases
clarification_rule_without_generic_term(shape, n, has_filters, has_specific_tool) ==
    IF has_filters /\ n > 0 /\ n <= 3 THEN FALSE
    ELSE IF has_specific_tool /\ n > 0 THEN n > 3
    ELSE IF shape.n_words < 2 /\ ~has_filters /\ ~has_specific_tool THEN TRUE
    ELSE IF n > 3 THEN TRUE
    ELSE IF n = 0 THEN TRUE
    ELSE FALSE

\* lines 86-128 for what lines 82-83, 93 and 109-110 computed and the
\* number n of filtered tools
clarification_rule(shape, n, has_filters, has_specific_tool) ==
    IF has_filters /\ n > 0 /\ n <= 3 THEN FALSE
    ELSE IF has_specific_tool /\ n > 0 THEN n > 3
    ELSE IF /\ shape.has_generic_term \/ shape.has_vague_phrase
            /\ ~has_specific_tool
            /\ ~has_filters
    THEN TRUE
    ELSE IF shape.n_words < 2 /\ ~has_filters /\ ~has_specific_tool THEN TRUE
    ELSE IF n > 3 THEN TRUE
    ELSE IF n = 0 THEN TRUE
    ELSE FALSE

needs_clarification(q, filters, filtered_tools, tools) ==
    clarification_rule(query_shape_memo(q), Len(filtered_tools), DOMAIN filters # {},
                       has_specific_tool_memo(q, tools))

\* Case 2 of generate_clarification_question: the questions and the
\* suggestions, before the cut to two questions.  sorted(set(...)) is
\* modelled by the set it lists.
too_many_questions(filters, filtered_tools) ==
    LET voltages == {filtered_tools[i].voltage :
                        i \in {j \in 1..Len(filtered_tools) : filtered_tools[j].voltage # ""}}
        app_types == {filtered_tools[i].application_type : i \in 1..Len(filtered_tools)}
        with_range == SelectSeq(filtered_tools, LAMBDA t :
                          t.torque_range # "" /\ t.torque_range # "NaN")
        torque_ranges == [j \in 1..Len(with_range) |-> with_range[j].torque_range]
        ip_ratings == {filtered_tools[i].ip_rating :
                          i \in {j \in 1..Len(filtered_tools) : filtered_tools[j].ip_rating # ""}}
        q_voltage == IF "voltage" \notin DOMAIN filters /\ Cardinality(voltages) > 1
                     THEN <<"What voltage do you need?">> ELSE <<>>
        q_app == IF "application_type" \notin DOMAIN filters /\ Cardinality(app_types) > 1
                 THEN <<"Is this for manual use or automation?">> ELSE <<>>
        q_torque == IF "torque" \notin DOMAIN filters /\ Len(torque_ranges) > 0
                    THEN <<"What torque range do you require?">> ELSE <<>>
        before_ip == q_voltage \o q_app \o q_torque
        q_ip == IF /\ "ip_rating" \notin DOMAIN filters
                   /\ Len(before_ip) = 0
                   /\ Cardinality(ip_ratings) > 1
                THEN <<"Do you need a specific IP rating?">> ELSE <<>>
        keys == {k \in {"voltage_options", "application_types", "torque_examples",
                        "ip_rating_options"} :
                    \/ k = "voltage_options" /\ q_voltage # <<>>
                    \/ k = "application_types" /\ q_app # <<>>
                    \/ k = "torque_examples" /\ q_torque # <<>>
                    \/ k = "ip_rating_options" /\ q_ip # <<>>}
    IN  [questions |-> before_ip \o q_ip,
         suggestions |-> [k \in keys |->
             CASE k = "voltage_options" -> voltages
               [] k = "application_types" -> app_types
               [] k = "torque_examples" -> list_prefix(torque_ranges, 3)
               [] k = "ip_rating_options" -> ip_ratings]]

generate_clarification_question(q, filters, filtered_tools, all_tools) ==
    IF Len(filtered_tools) = 0
    THEN [status |-> "needs_clarification",
          message |-> "I couldn't find any tools matching your criteria. Could you provide more details?",
          questions |-> <<"What type of tool are you looking for?",
                          "What will be the primary use case?">>,
          suggestions |->
              [categories |-> {all_tools[i].category : i \in 1..Len(all_tools)},
               application_types |-> {all_tools[i].application_type : i \in 1..Len(all_tools)},
               examples |-> <<"cordless nutrunner", "handheld screwdriver",
                              "automation spindle", "verification system">>]]
    ELSE IF Len(filtered_tools) > 3
    THEN [status |-> "needs_clarification",
          message |-> "I found " \o int_str(Len(filtered_tools))
                          \o " tools that might match. Please provide more details:",
          questions |-> list_prefix(too_many_questions(filters, filtered_tools).questions, 2),
          suggestions |-> too_many_questions(filters, filtered_tools).suggestions]
    ELSE IF query_shape_memo(q).n_words < 2 /\ DOMAIN filters = {}
    THEN [status |-> "needs_clarification",
          message |-> "Your query is too vague. Could you be more specific?",
          questions |-> <<"What type of tool are you looking for?",
                          "What is your intended use case?">>,
          suggestions |->
              [examples |-> <<"cordless nutrunner", "handheld screwdriver",
                              "automation spindle", "torque verification system">>]]
    ELSE [status |-> "needs_clarification",
          message |-> "Could you provide more details about your requirements?",
          questions |-> list_prefix(
              (IF "torque" \notin DOMAIN filters
               THEN <<"What torque range do you require (in Nm)?">> ELSE <<>>)
              \o (IF "application_type" \notin DOMAIN filters
                  THEN <<"Is this for automation or manual use?">> ELSE <<>>)
              \o (IF "voltage" \notin DOMAIN filters
                  THEN <<"Do you have any voltage preference (e.g., 18V, 230V, 400V)?">>
                  ELSE <<>>), 2),
          suggestions |-> EmptyDict]

(***************************************************************************)
(* crew_setup.py.  `session` is a session dict, or EmptyDict for None.     *)
(* The recommendation service is a black box: `service` is the outcome of  *)
(* crew.kickoff() as lines 144-158 see it: kind "json" (a brace-delimited  *)
(* object was found and json.loads gave `value`), "no_json" (no object in  *)
(* the text) or "invalid_json" (json.loads raised); `raw` is the text.     *)
(***************************************************************************)
dict_get(d, key, default) == IF key \in DOMAIN d THEN d[key] ELSE default

\* session_manager.get_accumulated_filters
get_accumulated_filters(session) == dict_get(session, "extracted_filters", EmptyDict)

accumulated_filters_of(session) ==
    IF DOMAIN session # {} THEN get_accumulated_filters(session) ELSE EmptyDict

\* lines 74-82 without the tests of line 80
enhanced_query_unconditional(user_query, session, tools) ==
    IF DOMAIN session # {} /\ dict_get(session, "last_query", "") # ""
    THEN dict_get(session, "last_query", "") \o " " \o user_query
    ELSE user_query

enhanced_query_of(user_query, session, tools) ==
    IF /\ DOMAIN session # {}
       /\ dict_get(session, "last_query", "") # ""
       /\ query_shape_memo(user_query).n_words <= 2
       /\ ~has_specific_tool_memo(user_query, tools)
    THEN dict_get(session, "last_query", "") \o " " \o user_query
    ELSE user_query

\* lines 86-91 with the accumulated value kept on a key both dicts hold
merged_filters_accumulated_first(user_query, session, tools) ==
    IF has_specific_tool_memo(user_query, tools)
    THEN extract_filters_memo(user_query)
    ELSE dict_merge(extract_filters_memo(user_query), accumulated_filters_of(session))

merged_filters_of(user_query, session, tools) ==
    IF has_specific_tool_memo(user_query, tools)
    THEN extract_filters_memo(user_query)
    ELSE dict_merge(accumulated_filters_of(session), extract_filters_memo(user_query))

\* lines 99-101
refiltered(retrieved, merged_filters, accumulated_filters) ==
    IF DOMAIN merged_filters # {} /\ DOMAIN accumulated_filters # {}
    THEN (IF Len(retrieved) > 0
          THEN apply_metadata_filters(retrieved, merged_filters) ELSE <<>>)
    ELSE retrieved

\* lines 93-101: the tools handed to the clarification engine and the recommender
agent_tools(user_query, session, rank, tools) ==
    refiltered(retrieve_tools(enhanced_query_of(user_query, session, tools),
                              3, TRUE, rank, tools),
               merged_filters_of(user_query, session, tools),
               accumulated_filters_of(session))

\* lines 111-158 for the filters of lines 86-91 and the tools of lines 94-101
agent_reply(user_query, merged_filters, found, service, tools) ==
    IF needs_clarification(user_query, merged_filters, found, tools)
    THEN dict_merge(generate_clarification_question(user_query, merged_filters, found, tools),
                    [filters |-> merged_filters])
    ELSE IF service.kind = "json" THEN service.value
    ELSE IF service.kind = "no_json"
    THEN [error |-> "No JSON found in response", raw |-> service.raw]
    ELSE [error |-> "Invalid JSON", raw |-> service.raw]

run_agent(user_query, session, rank, service, tools) ==
    agent_reply(user_query, merged_filters_of(user_query, session, tools),
                agent_tools(user_query, session, rank, tools), service, tools)

(***************************************************************************)
(* session_manager.py, each function run to completion on the sessions     *)
(* dict `ss` at clock value t.  The clock ticks every 30 minutes, so the   *)
(* 30 minutes of SESSION_TIMEOUT are 1 tick.                               *)
(***************************************************************************)
SESSION_TIMEOUT == 1

new_session(session_id, t) ==
    [session_id |-> session_id,
     conversation_history |-> <<>>,
     extracted_filters |-> EmptyDict,
     last_query |-> "",
     clarification_count |-> 0,
     created_at |-> t,
     last_accessed |-> t]

create_session(ss, session_id, t) ==
    [sid \in (DOMAIN ss) \cup {session_id} |->
        IF sid = session_id THEN new_session(session_id, t) ELSE ss[sid]]

\* the expiry test with the boundary included
session_expired_at_timeout(session, t) == t - session.last_accessed >= SESSION_TIMEOUT

session_expired(session, t) == t - session.last_accessed > SESSION_TIMEOUT

cleanup_expired_sessions(ss, t) ==
    [sid \in {i \in DOMAIN ss : ~session_expired(ss[i], t)} |-> ss[sid]]

get_session(ss, session_id, t) ==
    LET live == cleanup_expired_sessions(ss, t)
    IN  IF session_id \in DOMAIN live
        THEN [live EXCEPT ![session_id].last_accessed = t]
        ELSE create_session(live, session_id, t)

\* line 48 took the else branch: get_session created the session it returned
get_session_creates(ss, session_id, t) ==
    session_id \notin DOMAIN cleanup_expired_sessions(ss, t)

\* update_session keeping only the latest turn in conversation_history
record_turn_overwriting(session, q, response, t) ==
    [session EXCEPT
        !.conversation_history = <<[timestamp |-> t, query |-> q, response |-> response]>>,
        !.last_query = q,
        !.clarification_count =
            IF dict_get(response, "status", "") = "needs_clarification" THEN @ + 1 ELSE @,
        !.extracted_filters =
            IF "filters" \in DOMAIN response THEN dict_merge(@, response["filters"]) ELSE @,
        !.last_accessed = t]

\* update_session putting the response's filters in the place of the
\* session's
record_turn_replacing_filters(session, q, response, t) ==
    [session EXCEPT
        !.conversation_history =
            Append(@, [timestamp |-> t, query |-> q, response |-> response]),
        !.last_query = q,
        !.clarification_count =
            IF dict_get(response, "status", "") = "needs_clarification" THEN @ + 1 ELSE @,
        !.extracted_filters =
            IF "filters" \in DOMAIN response THEN response["filters"] ELSE @,
        !.last_accessed = t]

record_turn(session, q, response, t) ==
    [session EXCEPT
        !.conversation_history =
            Append(@, [timestamp |-> t, query |-> q, response |-> response]),
        !.last_query = q,
        !.clarification_count =
            IF dict_get(response, "status", "") = "needs_clarification" THEN @ + 1 ELSE @,
        !.extracted_filters =
            IF "filters" \in DOMAIN response THEN dict_merge(@, response["filters"]) ELSE @,
        !.last_accessed = t]

update_session(ss, session_id, q, response, t) ==
    LET got == get_session(ss, session_id, t)
    IN  [got EXCEPT ![session_id] = record_turn(got[session_id], q, response, t)]

clear_session(ss, session_id) ==
    [sid \in (DOMAIN ss) \ {session_id} |-> ss[sid]]

(***************************************************************************)
(* Worker threads.  /chat is a plain `def`, so FastAPI serves each request *)
(* on a thread of its pool and the requests share session_manager.sessions *)
(* without a lock.  A frame holds the locals of chat and of the            *)
(* session_manager function it is in; sessions are objects on a heap, the  *)
(* dict and the locals hold their addresses (0: unbound).                  *)
(***************************************************************************)
Threads == {1, 2}

IdleThread ==
    [pc |-> "idle", session_id |-> "", question |-> "", session |-> 0, target |-> 0,
     expired_sessions |-> {}, response |-> EmptyDict, count_read |-> 0,
     error |-> "none"]

InitThreadsIdle ==
    /\ heap = EmptyDict
    /\ session_refs = EmptyDict
    /\ threads = [t \in Threads |-> IdleThread]
    /\ started = 0

(***************************************************************************)
(* Outcomes of the recommendation service (crew.kickoff, lines 118-142).   *)
(***************************************************************************)
WellFormedReply ==
    [tool_name |-> "Cordless Nutrunner", model |-> "CN-18",
     why_recommended |-> "Matches the request", key_specs |-> <<"18V DC", "IP54">>,
     voltage |-> "18V DC", ip_rating |-> "IP54", image_path |-> "cn18.png",
     confidence |-> "high"]

\* what the recommendation service can answer: the object asked for, an
\* object with a key more, text without an object, text that is not JSON
ServiceOutcomes ==
    {[kind |-> "json", value |-> WellFormedReply, raw |-> ""],
     [kind |-> "json",
      value |-> dict_merge(WellFormedReply, [filters |-> [brand |-> "Atlas"]]),
      raw |-> ""],
     [kind |-> "no_json", value |-> EmptyDict, raw |-> "I cannot recommend a tool."],
     [kind |-> "invalid_json", value |-> EmptyDict, raw |-> "{tool_name: none}"]}

(***************************************************************************)
(* SpecCalls: one call of a function of the retriever on drawn arguments.  *)
(***************************************************************************)
InitSearch ==
    /\ op = "search"
    /\ catalog \in DrawnCatalogs
    /\ subset \in (SUBSET Positions(catalog)) \ {{}}
    /\ ranking \in Rankings(Len(catalog))
    /\ top_k \in 1..MaxTopK
    /\ query = ""
    /\ use_filters = TRUE
    /\ given_session = EmptyDict
    /\ drawn_filters = EmptyDict /\ more_filters = EmptyDict

InitRetrieve ==
    /\ op = "retrieve"
    /\ catalog \in DrawnCatalogs
    /\ subset = {}
    /\ ranking \in Rankings(Len(catalog))
    /\ top_k \in 0..MaxTopK
    /\ query \in Queries
    /\ use_filters \in BOOLEAN
    /\ given_session = EmptyDict
    /\ drawn_filters = EmptyDict /\ more_filters = EmptyDict

\* the sessions main.chat can hand to run_agent: None, a fresh one, one
\* after a recommendation turn "nutrunner", one after a recommendation turn
\* "18V", one after a clarification turn
AgentSessions ==
    {EmptyDict,
     new_session("s1", 0),
     [new_session("s1", 0) EXCEPT !.last_query = "nutrunner"],
     [new_session("s1", 0) EXCEPT !.last_query = "18V"],
     [new_session("s1", 0) EXCEPT !.last_query = "400V",
                                  !.extracted_filters = [voltage |-> "400V"],
                                  !.clarification_count = 1]}

InitAgent ==
    /\ op = "agent"
    /\ catalog = ShopCatalog
    /\ subset = {}
    /\ ranking \in AgentRankings
    /\ top_k = 3
    /\ query \in AgentQueries
    /\ use_filters = TRUE
    /\ given_session \in AgentSessions
    /\ drawn_filters = EmptyDict /\ more_filters = EmptyDict

\* a needs_clarification call as run_agent makes it (lines 111-112), on a
\* drawn query, FilterSet and sublist of the catalog
InitClarify ==
    /\ op = "clarify"
    /\ catalog = FilterCatalog
    /\ subset \in SUBSET Positions(FilterCatalog)
    /\ ranking = <<>>
    /\ top_k = 0
    /\ query \in ClarifyQueries
    /\ use_filters = TRUE
    /\ given_session = EmptyDict
    /\ drawn_filters \in ClarifyFilterSets /\ more_filters = EmptyDict

InitExtract ==
    /\ op = "extract"
    /\ catalog = ShopCatalog
    /\ subset = {}
    /\ ranking = <<>>
    /\ top_k = 0
    /\ query \in ExtractQueries
    /\ use_filters = TRUE
    /\ given_session = EmptyDict
    /\ drawn_filters = EmptyDict /\ more_filters = EmptyDict

\* apply_metadata_filters on the catalog, and again on what it returned
InitFilter ==
    /\ op = "filter"
    /\ catalog = FilterCatalog
    /\ subset = {}
    /\ ranking = <<>>
    /\ top_k = 0
    /\ query = ""
    /\ use_filters = TRUE
    /\ given_session = EmptyDict
    /\ drawn_filters \in DrawnFilterSets /\ more_filters \in DrawnFilterSets

InitCalls ==
    /\ \/ InitSearch \/ InitRetrieve \/ InitAgent
       \/ InitClarify \/ InitExtract \/ InitFilter
    /\ phase = "call"
    /\ matched = <<>>
    /\ result = <<>>
    /\ agent_response = EmptyDict
    /\ verdict = FALSE
    /\ search_text = ""
    /\ turn_filters = EmptyDict
    /\ sessions = EmptyDict
    /\ now = 0
    /\ turn = [handler |-> "none", session_id |-> ""]
    /\ recorded = [sid \in {} |-> 0]
    /\ InitThreadsIdle

Search ==
    /\ op = "search" /\ phase = "call"
    /\ matched' = matched_indices_of(ranking, tools_at(catalog, subset), catalog)
    /\ result' = semantic_search_on_subset(ranking, tools_at(catalog, subset), catalog, top_k)
    /\ phase' = "ret"
    /\ UNCHANGED <<catalog, op, query, top_k, use_filters, subset, ranking, given_session,
                   agent_response, drawn_filters, more_filters, verdict, search_text,
                   turn_filters, storeVars, threadVars>>

Retrieve ==
    /\ op = "retrieve" /\ phase = "call"
    /\ result' = retrieve_tools(query, top_k, use_filters, ranking, catalog)
    /\ phase' = "ret"
    /\ UNCHANGED <<catalog, op, query, top_k, use_filters, subset, ranking, matched,
                   given_session, agent_response, drawn_filters, more_filters, verdict,
                   search_text, turn_filters, storeVars, threadVars>>

\* run_agent on the drawn query and session; `result` is the tool list it
\* hands to needs_clarification and to the recommendation service
Agent(service) ==
    /\ op = "agent" /\ phase = "call"
    /\ result' = agent_tools(query, given_session, ranking, catalog)
    /\ agent_response' = run_agent(query, given_session, ranking, service, catalog)
    /\ search_text' = enhanced_query_of(query, given_session, catalog)
    /\ turn_filters' = merged_filters_of(query, given_session, catalog)
    /\ phase' = "ret"
    /\ UNCHANGED <<catalog, op, query, top_k, use_filters, subset, ranking, matched,
                   given_session, drawn_filters, more_filters, verdict, storeVars,
                   threadVars>>

\* crew_setup.py lines 111-112: needs_clarification, and
\* generate_clarification_question when it answers True
Clarify ==
    /\ op = "clarify" /\ phase = "call"
    /\ verdict' = needs_clarification(query, drawn_filters, tools_at(catalog, subset), catalog)
    /\ agent_response' =
           IF verdict'
           THEN generate_clarification_question(query, drawn_filters,
                                                tools_at(catalog, subset), catalog)
           ELSE EmptyDict
    /\ phase' = "ret"
    /\ UNCHANGED <<catalog, op, query, top_k, use_filters, subset, ranking, matched, result,
                   given_session, drawn_filters, more_filters, search_text, turn_filters,
                   storeVars, threadVars>>

Extract ==
    /\ op = "extract" /\ phase = "call"
    /\ turn_filters' = extract_filters(query)
    /\ phase' = "ret"
    /\ UNCHANGED <<catalog, op, query, top_k, use_filters, subset, ranking, matched, result,
                   given_session, agent_response, drawn_filters, more_filters, verdict,
                   search_text, storeVars, threadVars>>

Filter ==
    /\ op = "filter" /\ phase = "call"
    /\ result' = apply_metadata_filters(catalog, drawn_filters)
    /\ phase' = "ret"
    /\ UNCHANGED <<catalog, op, query, top_k, use_filters, subset, ranking, matched,
                   given_session, agent_response, drawn_filters, more_filters, verdict,
                   search_text, turn_filters, storeVars, threadVars>>

\* apply_metadata_filters with more_filters on the list the first call returned
FilterAgain ==
    /\ op = "filter" /\ phase = "ret"
    /\ result' = apply_metadata_filters(result, more_filters)
    /\ phase' = "ret2"
    /\ UNCHANGED <<catalog, op, query, top_k, use_filters, subset, ranking, matched,
                   given_session, agent_response, drawn_filters, more_filters, verdict,
                   search_text, turn_filters, storeVars, threadVars>>

NextCalls ==
    \/ Search
    \/ Retrieve
    \/ Clarify
    \/ Extract
    \/ Filter
    \/ FilterAgain
    \/ \E service \in ServiceOutcomes : Agent(service)

SpecCalls == InitCalls /\ [][NextCalls]_vars

(***************************************************************************)
(* Spec: the backend serving one request at a time.  Every action is one   *)
(* request handled to completion.                                          *)
(***************************************************************************)
InitCallsIdle ==
    /\ op = "none" /\ phase = "call" /\ query = "" /\ top_k = 0 /\ use_filters = TRUE
    /\ subset = {} /\ ranking = <<>> /\ matched = <<>> /\ result = <<>>
    /\ given_session = EmptyDict /\ agent_response = EmptyDict
    /\ drawn_filters = EmptyDict /\ more_filters = EmptyDict /\ verdict = FALSE
    /\ search_text = "" /\ turn_filters = EmptyDict

InitStore ==
    /\ sessions = EmptyDict
    /\ now = 0
    /\ turn = [handler |-> "none", session_id |-> ""]
    /\ recorded = [sid \in SessionIds |-> 0]
    /\ InitThreadsIdle

Init ==
    /\ catalog = ShopCatalog
    /\ InitCallsIdle
    /\ InitStore

\* the turns the histories of the sessions `ids` of `ss` hold
RECURSIVE history_total(_, _)
history_total(ss, ids) ==
    IF ids = {} THEN 0
    ELSE LET i == CHOOSE j \in ids : TRUE
         IN  Len(ss[i].conversation_history) + history_total(ss, ids \ {i})

\* update_session calls on the session stored under sid since it was created
recorded_after(ss, sid, created, recorded_now) ==
    [i \in SessionIds |->
        IF i \notin DOMAIN ss THEN 0
        ELSE IF i = sid THEN (IF created THEN 0 ELSE recorded[i]) + recorded_now
        ELSE recorded[i]]

\* main.chat: get_session, run_agent, update_session, while the histories
\* hold fewer than max_turns turns
ChatWithin(max_turns, sid, question, rank, service) ==
    LET got == get_session(sessions, sid, now)
        response == run_agent(question, got[sid], rank, service, catalog)
        after == update_session(got, sid, question, response, now)
    IN  /\ history_total(got, DOMAIN got) < max_turns
        /\ sessions' = after
        /\ turn' = [handler |-> "chat", session_id |-> sid]
        /\ recorded' = recorded_after(sessions', sid,
                           get_session_creates(sessions, sid, now)
                               \/ get_session_creates(got, sid, now), 1)
        /\ turn_filters' = merged_filters_of(question, got[sid], catalog)
        /\ UNCHANGED <<catalog, op, phase, query, top_k, use_filters, subset, ranking,
                       matched, result, given_session, agent_response, drawn_filters,
                       more_filters, verdict, search_text, now, threadVars>>

Chat(sid, question, rank, service) == ChatWithin(MaxTurns, sid, question, rank, service)

\* main.chat when run_agent raises (the embedding or the recommendation
\* service failed): get_session ran, update_session did not
ChatFailed(sid) ==
    /\ sessions' = get_session(sessions, sid, now)
    /\ turn' = [handler |-> "chat_failed", session_id |-> sid]
    /\ recorded' = recorded_after(sessions', sid, get_session_creates(sessions, sid, now), 0)
    /\ UNCHANGED <<catalog, callVars, now, threadVars>>

ClearSession(sid) ==
    /\ sessions' = clear_session(sessions, sid)
    /\ turn' = [handler |-> "clear_session", session_id |-> sid]
    /\ recorded' = recorded_after(sessions', sid, FALSE, 0)
    /\ UNCHANGED <<catalog, callVars, now, threadVars>>

Tick ==
    /\ now < MaxNow
    /\ now' = now + 1
    /\ UNCHANGED <<catalog, callVars, sessions, turn, recorded, threadVars>>

Next ==
    \/ \E sid \in SessionIds, question \in ChatQueries,
          rank \in ChatRankings, service \in ServiceOutcomes :
            Chat(sid, question, rank, service)
    \/ \E sid \in SessionIds : ChatFailed(sid)
    \/ \E sid \in SessionIds : ClearSession(sid)
    \/ Tick

Spec == Init /\ [][Next]_vars

(***************************************************************************)
(* SpecDialogue: the backend serving the turns of one session, one request *)
(* at a time, for dialogues of up to MaxDialogueTurns turns.               *)
(***************************************************************************)
DialogueQueries == {"400V", "nutrunner", "portable"}

\* the recommendation service answers with a JSON object
DialogueServices == {service \in ServiceOutcomes : service.kind = "json"}

NextDialogue ==
    \/ \E question \in DialogueQueries, rank \in ChatRankings, service \in DialogueServices :
          ChatWithin(MaxDialogueTurns, "s1", question, rank, service)
    \/ ChatFailed("s1")
    \/ ClearSession("s1")
    \/ Tick

SpecDialogue == Init /\ [][NextDialogue]_vars

(***************************************************************************)
(* SpecThreads: the backend serving /chat on two worker threads.  An       *)
(* action is a stretch of one request that the model runs without another  *)
(* thread in between: the scan of cleanup_expired_sessions (lines          *)
(* 141-145), one `del` of its loop (147-148), the lookup of get_session    *)
(* (47-53), run_agent, and the statements of update_session (68-85), the   *)
(* `+= 1` of line 79 as the read and the write it is compiled to.          *)
(***************************************************************************)
ThreadSessionIds == {"s1"}

ThreadQueries == {"400V", "nutrunner"}

ThreadService == [kind |-> "json", value |-> WellFormedReply, raw |-> ""]

\* the addresses the sessions dict and the frames refer to
referenced(refs, ths) ==
    {refs[sid] : sid \in DOMAIN refs}
        \cup {ths[t].session : t \in Threads} \cup {ths[t].target : t \in Threads}

\* the heap without the objects nothing refers to any more
collected(h, refs, ths) == [a \in (DOMAIN h) \cap referenced(refs, ths) |-> h[a]]

\* the address of a new object: the lowest one free
new_address(h) ==
    CHOOSE a \in 1..(Cardinality(DOMAIN h) + 1) :
        a \notin DOMAIN h /\ \A b \in 1..(a - 1) : b \in DOMAIN h

\* main.chat line 22: the request arrives, get_session is entered
Receive(t, sid, question) ==
    /\ threads[t].pc = "idle"
    /\ started < MaxRequests
    /\ started' = started + 1
    /\ threads' = [threads EXCEPT ![t] =
           [IdleThread EXCEPT !.pc = "get_scan", !.session_id = sid,
                              !.question = question]]
    /\ UNCHANGED <<catalog, callVars, storeVars, heap, session_refs>>

\* cleanup_expired_sessions lines 141-145: the list of expired ids
Scan(t) ==
    /\ threads[t].pc \in {"get_scan", "update_scan"}
    /\ threads' = [threads EXCEPT
           ![t].expired_sessions =
               {sid \in DOMAIN session_refs :
                    session_expired(heap[session_refs[sid]], now)},
           ![t].pc = IF threads[t].pc = "get_scan" THEN "get_del" ELSE "update_del"]
    /\ UNCHANGED <<catalog, callVars, storeVars, heap, session_refs, started>>

\* cleanup_expired_sessions lines 147-148: `del sessions[sid]` for one listed
\* id; it raises KeyError when the id is not a key, which ends the request
Del(t) ==
    /\ threads[t].pc \in {"get_del", "update_del"}
    /\ \E sid \in threads[t].expired_sessions :
         IF sid \in DOMAIN session_refs
         THEN /\ session_refs' = [i \in (DOMAIN session_refs) \ {sid} |-> session_refs[i]]
              /\ threads' = [threads EXCEPT ![t].expired_sessions = @ \ {sid}]
         ELSE /\ session_refs' = session_refs
              /\ threads' = [threads EXCEPT ![t] = [IdleThread EXCEPT !.error = "KeyError"]]
    /\ heap' = collected(heap, session_refs', threads')
    /\ UNCHANGED <<catalog, callVars, storeVars, started>>

\* get_session lines 47-53, after the sweep: the stored session, touched, or
\* a new one; chat binds it to `session`, update_session to its own `session`
Lookup(t) ==
    /\ threads[t].pc \in {"get_del", "update_del"}
    /\ threads[t].expired_sessions = {}
    /\ LET sid == threads[t].session_id
           known == sid \in DOMAIN session_refs
           a == IF known THEN session_refs[sid] ELSE new_address(heap)
           touched == IF known THEN [heap EXCEPT ![a].last_accessed = now]
                      ELSE (a :> new_session(sid, now)) @@ heap
       IN  /\ session_refs' = IF known THEN session_refs ELSE (sid :> a) @@ session_refs
           /\ threads' = IF threads[t].pc = "get_del"
                         THEN [threads EXCEPT ![t].session = a, ![t].pc = "agent"]
                         ELSE [threads EXCEPT ![t].target = a, ![t].pc = "append"]
           /\ heap' = collected(touched, session_refs', threads')
    /\ UNCHANGED <<catalog, callVars, storeVars, started>>

\* main.chat line 25
RunAgent(t, rank) ==
    /\ threads[t].pc = "agent"
    /\ threads' = [threads EXCEPT
           ![t].response = run_agent(threads[t].question, heap[threads[t].session],
                                     rank, ThreadService, catalog),
           ![t].pc = "update_scan"]
    /\ UNCHANGED <<catalog, callVars, storeVars, heap, session_refs, started>>

\* update_session lines 68-78: the history entry, last_query, the test of
\* the response's status
AppendTurn(t) ==
    /\ threads[t].pc = "append"
    /\ heap' = [heap EXCEPT
           ![threads[t].target].conversation_history =
               Append(@, [timestamp |-> now, query |-> threads[t].question,
                          response |-> threads[t].response]),
           ![threads[t].target].last_query = threads[t].question]
    /\ threads' = [threads EXCEPT ![t].pc =
           IF dict_get(threads[t].response, "status", "") = "needs_clarification"
           THEN "count_read" ELSE "merge"]
    /\ UNCHANGED <<catalog, callVars, storeVars, session_refs, started>>

\* line 79, the read of session["clarification_count"]
CountRead(t) ==
    /\ threads[t].pc = "count_read"
    /\ threads' = [threads EXCEPT
           ![t].count_read = heap[threads[t].target].clarification_count,
           ![t].pc = "count_write"]
    /\ UNCHANGED <<catalog, callVars, storeVars, heap, session_refs, started>>

\* line 79, the store of the value read plus 1
CountWrite(t) ==
    /\ threads[t].pc = "count_write"
    /\ heap' = [heap EXCEPT
           ![threads[t].target].clarification_count = threads[t].count_read + 1]
    /\ threads' = [threads EXCEPT ![t].pc = "merge"]
    /\ UNCHANGED <<catalog, callVars, storeVars, session_refs, started>>

\* lines 82-85 and the return of chat
MergeFilters(t) ==
    /\ threads[t].pc = "merge"
    /\ threads' = [threads EXCEPT ![t] = IdleThread]
    /\ heap' = collected(
           [heap EXCEPT
               ![threads[t].target].extracted_filters =
                   IF "filters" \in DOMAIN threads[t].response
                   THEN dict_merge(@, threads[t].response["filters"]) ELSE @,
               ![threads[t].target].last_accessed = now],
           session_refs, threads')
    /\ UNCHANGED <<catalog, callVars, storeVars, session_refs, started>>

NextThreads ==
    \/ \E t \in Threads, sid \in ThreadSessionIds, question \in ThreadQueries :
          Receive(t, sid, question)
    \/ \E t \in Threads : Scan(t)
    \/ \E t \in Threads : Del(t)
    \/ \E t \in Threads : Lookup(t)
    \/ \E t \in Threads, rank \in ChatRankings : RunAgent(t, rank)
    \/ \E t \in Threads : AppendTurn(t)
    \/ \E t \in Threads : CountRead(t)
    \/ \E t \in Threads : CountWrite(t)
    \/ \E t \in Threads : MergeFilters(t)
    \/ Tick

SpecThreads == Init /\ [][NextThreads]_vars

(***************************************************************************)
(* Claims                                                                  *)
(***************************************************************************)

\* C1: subset-constrained ranking returns a non-empty list whenever the
\* filtered subset is non-empty and top_k >= 1, whatever the index returns,
\* and every returned tool is a tool of the filtered subset.
C1_SubsetRankingWithinSubset ==
    (op = "search" /\ phase = "ret") =>
        /\ Len(result) >= 1
        /\ \A j \in 1..Len(result) : \E p \in subset : result[j] = catalog[p + 1]

\* C1 witness: the index returned no member of the subset and the search
\* still answered from the subset.
C1_Witness ==
    /\ op = "search" /\ phase = "ret"
    /\ \A i \in 1..Len(ranking) : ranking[i] \notin subset
    /\ Len(catalog) >= 2
    /\ Len(result) >= 1

\* C2: with every catalog position ranked by the index, the positions
\* accepted while walking the ranking are exactly the catalog positions of
\* the filtered subset, also when the catalog holds equal records (a
\* metadata filter keeps or drops equal records together).
C2_AcceptedPositionsAreSubset ==
    (/\ op = "search" /\ phase = "ret"
     /\ Len(ranking) = Len(catalog)
     /\ \A p \in subset : \A r \in Positions(catalog) :
            catalog[r + 1] = catalog[p + 1] => r \in subset) =>
        {matched[j] : j \in 1..Len(matched)} = subset

\* C3: a turn whose query is "nutrunner", with no extracted and no
\* accumulated filters, against a catalog holding more than 3 tools of
\* category Nutrunner (so that "nutrunner" is a tool keyword), gets from
\* run_agent a clarification payload (status "needs_clarification") with at
\* most 2 questions; the index ranks every tool of the catalog.
C3_NutrunnerGetsClarification ==
    (/\ op = "agent" /\ phase = "ret"
     /\ query = "nutrunner"
     /\ Len(ranking) = Len(catalog)
     /\ DOMAIN extract_filters(query) = {}
     /\ DOMAIN accumulated_filters_of(given_session) = {}
     /\ Cardinality({p \in Positions(catalog) :
                        catalog[p + 1].category = "Nutrunner"}) > 3
     /\ has_specific_tool_in(query, catalog)) =>
        /\ dict_get(agent_response, "status", "") = "needs_clarification"
        /\ Len(agent_response.questions) <= 2

\* C4: after every completed chat turn, whatever payload it ended in, the
\* session's extracted_filters is its previous extracted_filters (empty for
\* a session the turn created) overwritten by the filters extracted from the
\* turn's query.
C4_EveryTurnAccumulatesFilters ==
    [][(turn'.handler = "chat" /\ sessions' # sessions) =>
        LET sid == turn'.session_id
            kept == /\ sid \in DOMAIN sessions
                    /\ now - sessions[sid].last_accessed <= SESSION_TIMEOUT
            previous == IF kept THEN sessions[sid].extracted_filters ELSE EmptyDict
            history == sessions'[sid].conversation_history
        IN  sessions'[sid].extracted_filters =
                dict_merge(previous, extract_filters(history[Len(history)].query))]_vars

\* C5: a session lookup answers with a brand-new session (empty history,
\* empty filters, empty last_query, counter 0) if and only if the id is
\* unknown or the stored record has been idle for strictly more than the
\* timeout; otherwise it answers with the stored record, only last_accessed
\* changed.
C5_NewSessionIffUnknownOrExpired ==
    [][(turn'.handler = "chat_failed" /\ now' = now) =>
        LET sid == turn'.session_id
            stale == \/ sid \notin DOMAIN sessions
                     \/ now - sessions[sid].last_accessed > SESSION_TIMEOUT
        IN  /\ sid \in DOMAIN sessions'
            /\ stale =>
                  /\ sessions'[sid].conversation_history = <<>>
                  /\ sessions'[sid].extracted_filters = EmptyDict
                  /\ sessions'[sid].last_query = ""
                  /\ sessions'[sid].clarification_count = 0
            /\ ~stale =>
                  sessions'[sid] = [sessions[sid] EXCEPT !.last_accessed = now]]_vars

\* C5 witness: a lookup found a session whose last turn was recorded a whole
\* timeout ago and answered with it, history, filters and counter in place.
C5_Witness ==
    /\ turn.handler = "chat_failed"
    /\ turn.session_id \in DOMAIN sessions
    /\ LET s == sessions[turn.session_id]
       IN  /\ Len(s.conversation_history) > 0
           /\ s.conversation_history[Len(s.conversation_history)].timestamp
                 = now - SESSION_TIMEOUT
           /\ s.last_accessed = now
           /\ DOMAIN s.extracted_filters # {}
           /\ s.clarification_count > 0

\* C6: the keys of every session's extracted_filters are among voltage,
\* torque, ip_rating and application_type.
C6_FilterKeysWithinEnumeration ==
    \A sid \in DOMAIN sessions :
        DOMAIN sessions[sid].extracted_filters
            \subseteq {"voltage", "torque", "ip_rating", "application_type"}

\* C7: for every live session, the length of conversation_history is the
\* number of turns update_session recorded for it since its creation.
C7_HistoryLengthIsTurnsRecorded ==
    \A sid \in DOMAIN sessions :
        Len(sessions[sid].conversation_history) = recorded[sid]

\* C7 witness: a session created after the clock moved holds two recorded
\* turns while the request served last was a failed turn on the other id.
C7_Witness ==
    \E sid \in DOMAIN sessions :
        /\ sessions[sid].created_at > 0
        /\ Len(sessions[sid].conversation_history) = 2
        /\ recorded[sid] = 2
        /\ turn.handler = "chat_failed" /\ turn.session_id # sid

\* C8: once every request in flight has been recorded (all worker threads
\* are idle), the clarification_count of every stored session is non-negative
\* and equals the number of needs_clarification responses in its
\* conversation_history, whatever the interleaving of the turns.
C8_NoLostCountUpdate ==
    (\A t \in Threads : threads[t].pc = "idle") =>
        \A sid \in DOMAIN session_refs :
            LET s == heap[session_refs[sid]]
                h == s.conversation_history
            IN  /\ s.clarification_count >= 0
                /\ s.clarification_count =
                      Cardinality({i \in 1..Len(h) :
                          dict_get(h[i].response, "status", "") = "needs_clarification"})

\* C9: under concurrent lookups, every removal of a record from the sessions
\* dict removes a record whose idle time exceeds the timeout at the moment of
\* the removal, and no sweep ends in an error.
C9_SweepRemovesOnlyExpiredWithoutError ==
    [][/\ \A sid \in DOMAIN session_refs :
            sid \notin DOMAIN session_refs' =>
                now - heap[session_refs[sid]].last_accessed > SESSION_TIMEOUT
       /\ \A t \in Threads : threads'[t].error = "none"]_vars

\* C10: retrieve_tools returns at most one tool, for every query and top_k,
\* with and without filters, and the tool list run_agent hands to the
\* clarification engine and to the recommendation service has at most one
\* element.
C10_AtMostOneTool ==
    (op \in {"retrieve", "agent"} /\ phase = "ret") => Len(result) <= 1

C10_Witness ==
    /\ op = "retrieve" /\ phase = "ret"
    /\ top_k >= 2 /\ Len(catalog) >= 2 /\ Len(ranking) >= 2
    /\ DOMAIN extract_filters(query) = {}
    /\ Len(result) = 1

\* C11: when the query yields filters and no catalog tool satisfies them,
\* retrieve_tools returns the empty list (no unfiltered search); and whenever
\* the tool list of a run_agent call is empty, run_agent returns a payload
\* with status "needs_clarification", which is not the recommendation
\* service's answer.
C11_NoMatchRoutedToClarification ==
    /\ (/\ op = "retrieve" /\ phase = "ret" /\ use_filters
         /\ DOMAIN extract_filters(query) # {}
         /\ \A p \in Positions(catalog) :
                ~satisfies(catalog[p + 1], extract_filters(query))) =>
            result = <<>>
    /\ (op = "agent" /\ phase = "ret" /\ Len(result) = 0) =>
            /\ dict_get(agent_response, "status", "") = "needs_clarification"
            /\ \A service \in ServiceOutcomes : agent_response # service.value

\* C11 witness: a run_agent call whose query's filters fit no tool of the
\* fully ranked catalog ended with no tool and answered with a clarification.
C11_Witness ==
    /\ op = "agent" /\ phase = "ret"
    /\ Len(ranking) = Len(catalog)
    /\ DOMAIN extract_filters(query) # {}
    /\ \A p \in Positions(catalog) : ~satisfies(catalog[p + 1], extract_filters(query))
    /\ result = <<>>
    /\ dict_get(agent_response, "status", "") = "needs_clarification"

\* C12: needs_clarification is the seven-rule ordered decision list, the
\* first applicable rule deciding, for every combination of filters (empty
\* or not), result count (0, 1..3, more than 3), query with a known tool
\* keyword or not, generic or vague or not, shorter than 2 words or not.
C12_SevenRuleDecisionList ==
    (op = "clarify" /\ phase = "ret") =>
        LET n == Cardinality(subset)
            has_filters == DOMAIN drawn_filters # {}
            keyword == query \in {"nutrunner", "Cordless Nutrunner", "show me a nutrunner"}
            generic == query \in {"tool", "i need help", "show me a nutrunner"}
            short == query \in {"nutrunner", "tool", "18V"}
            clarify ==
                IF has_filters /\ n \in 1..3 THEN FALSE
                ELSE IF keyword /\ n > 0 THEN n > 3
                ELSE IF generic /\ ~keyword /\ ~has_filters THEN TRUE
                ELSE IF short /\ ~has_filters /\ ~keyword THEN TRUE
                ELSE IF n > 3 THEN TRUE
                ELSE IF n = 0 THEN TRUE
                ELSE FALSE
        IN  verdict = clarify

\* C12 witness: rule 2 decided against rule 4: a one-word query that is a
\* tool keyword, no filters, two results, and the answer was not to clarify.
C12_Witness ==
    /\ op = "clarify" /\ phase = "ret"
    /\ query = "nutrunner"
    /\ DOMAIN drawn_filters = {}
    /\ Cardinality(subset) = 2
    /\ verdict = FALSE

\* C13: the effective search text of a run_agent call is the session's
\* last_query, a space and the current query exactly when a session is given,
\* its last_query is non-empty, the current query has at most 2 words and
\* names no tool keyword; otherwise it is the current query verbatim.
C13_EffectiveSearchText ==
    (op = "agent" /\ phase = "ret") =>
        LET refinement ==
                /\ DOMAIN given_session # {}
                /\ given_session.last_query # ""
                /\ query \in {"18V", "400V", "tool", "portable"}
        IN  search_text =
                IF refinement THEN given_session.last_query \o " " \o query ELSE query

\* C13 witness: after a turn "nutrunner", the turn "18V" searched with
\* "nutrunner 18V".
C13_Witness ==
    /\ op = "agent" /\ phase = "ret"
    /\ query = "18V"
    /\ DOMAIN given_session # {}
    /\ given_session.last_query = "nutrunner"
    /\ search_text = "nutrunner 18V"

\* C14: the merged filters of a run_agent call are the current query's
\* filters alone when the query names a tool keyword, and otherwise the
\* session's accumulated filters overwritten key by key by the current ones;
\* the call leaves the session's accumulated filters as they were.
C14_MergedFilters ==
    [][(op = "agent" /\ phase = "call" /\ phase' = "ret") =>
        LET current ==
                CASE query \in {"18V", "400V"} -> [voltage |-> query]
                  [] query = "portable" -> [application_type |-> "Manual / Portable"]
                  [] query = "IP54 nutrunner" -> [ip_rating |-> "IP54"]
                  [] OTHER -> EmptyDict
            accumulated ==
                IF DOMAIN given_session # {} THEN given_session.extracted_filters
                ELSE EmptyDict
            names_tool == query \in {"nutrunner", "IP54 nutrunner"}
        IN  /\ turn_filters' =
                   IF names_tool THEN current
                   ELSE [k \in (DOMAIN accumulated) \cup (DOMAIN current) |->
                            IF k \in DOMAIN current THEN current[k] ELSE accumulated[k]]
            /\ given_session' = given_session]_vars

\* C14 witness: the session held voltage 400V, the query said 18V, and the
\* merged filters hold the voltage of the query.
C14_Witness ==
    /\ op = "agent" /\ phase = "ret"
    /\ DOMAIN given_session # {}
    /\ given_session.extracted_filters = [voltage |-> "400V"]
    /\ query = "18V"
    /\ turn_filters = [voltage |-> "18V"]

\* C15: extract_filters sets application_type by the ordered list
\* cordless/portable -> Manual / Portable; automation/assembly line/automated
\* -> Automation; manual without portable -> Manual; controller/control
\* system -> Control System; verification/calibration -> Quality /
\* Verification; none -> no key; the first rule that matches wins, so a query
\* with both "manual" and "portable" gets Manual / Portable.
C15_ApplicationTypeOrder ==
    (op = "extract" /\ phase = "ret") =>
        LET expected ==
                CASE query \in {"manual portable", "Portable MANUAL tool", "cordless"}
                         -> "Manual / Portable"
                  [] query \in {"automated line", "assembly line",
                                 "control system automation", "verification of automation"}
                         -> "Automation"
                  [] query \in {"manual", "manually fed", "manual controller"} -> "Manual"
                  [] query = "controller" -> "Control System"
                  [] query = "calibration" -> "Quality / Verification"
                  [] OTHER -> ""
        IN  IF expected = "" THEN "application_type" \notin DOMAIN turn_filters
            ELSE /\ "application_type" \in DOMAIN turn_filters
                 /\ turn_filters["application_type"] = expected

\* C15 witness: a query with "manual" and "portable", in upper and lower
\* case, got Manual / Portable.
C15_Witness ==
    /\ op = "extract" /\ phase = "ret"
    /\ query = "Portable MANUAL tool"
    /\ turn_filters = [application_type |-> "Manual / Portable"]

\* C16: apply_metadata_filters returns, in catalog order, exactly the tools
\* that pass the predicate of every active key (voltage: the value is a
\* substring of the tool's voltage in upper case; ip_rating and
\* application_type: equal; torque: min <= requested <= max of the tool's
\* range, a tool with an empty, "NaN" or unparseable range excluded); the
\* empty FilterSet returns the list as it is; and applying F1 and then F2,
\* where they agree on the keys they share, returns what applying their
\* union returns.
C16_FilterIsConjunctionOfKeyPredicates ==
    LET torque_bounds(tool) ==
            CASE tool.torque_range = "5-100 Nm" -> <<5, 100>>
              [] tool.torque_range = "2-80 Nm" -> <<2, 80>>
              [] tool.torque_range = "10~200 Nm" -> <<10, 200>>
              [] OTHER -> <<1, 0>>
        voltage_upper(tool) ==
            CASE tool.voltage = "230v ac" -> "230V AC"
              [] OTHER -> tool.voltage
        ip_upper(tool) ==
            CASE tool.ip_rating = "ip40" -> "IP40"
              [] OTHER -> tool.ip_rating
        passes(tool, f) ==
            /\ "voltage" \in DOMAIN f =>
                   \E i \in 1..Len(voltage_upper(tool)) :
                       \E j \in i..Len(voltage_upper(tool)) :
                           SubSeq(voltage_upper(tool), i, j) = f["voltage"]
            /\ "ip_rating" \in DOMAIN f => ip_upper(tool) = f["ip_rating"]
            /\ "application_type" \in DOMAIN f =>
                   tool.application_type = f["application_type"]
            /\ "torque" \in DOMAIN f =>
                   /\ torque_bounds(tool)[1] <= f["torque"]
                   /\ f["torque"] <= torque_bounds(tool)[2]
        agree == \A k \in (DOMAIN drawn_filters) \cap (DOMAIN more_filters) :
                     drawn_filters[k] = more_filters[k]
        both == [k \in (DOMAIN drawn_filters) \cup (DOMAIN more_filters) |->
                    IF k \in DOMAIN drawn_filters THEN drawn_filters[k] ELSE more_filters[k]]
    IN  /\ (op = "filter" /\ phase = "ret") =>
               /\ result = SelectSeq(catalog, LAMBDA tool : passes(tool, drawn_filters))
               /\ DOMAIN drawn_filters = {} => result = catalog
        /\ (op = "filter" /\ phase = "ret2" /\ agree) =>
               /\ result = apply_metadata_filters(catalog, both)
               /\ result = SelectSeq(catalog, LAMBDA tool : passes(tool, both))

\* C16 witness: a voltage filter and then a torque filter at the upper end of
\* a range kept the one tool that passes both.
C16_Witness ==
    /\ op = "filter" /\ phase = "ret2"
    /\ drawn_filters = [voltage |-> "18V"]
    /\ more_filters = [torque |-> 100]
    /\ result = <<CordlessNutrunner>>

\* C17: in every run_agent call with non-empty merged filters, where the
\* index ranks the whole catalog, every tool of the list handed to the
\* clarification engine and the recommendation service satisfies every
\* merged filter, also when the session has no accumulated filters and the
\* retriever took its filters from the previous query followed by the
\* current one.
C17_ResultSatisfiesMergedFilters ==
    (/\ op = "agent" /\ phase = "ret"
     /\ Len(ranking) = Len(catalog)
     /\ DOMAIN turn_filters # {}) =>
        \A j \in 1..Len(result) : satisfies(result[j], turn_filters)

\* C18: in the clarification payload for more than 3 results, the questions
\* come in the order voltage, application type, torque, IP rating; a
\* dimension's question is there only if the dimension is not a key of the
\* filters and the candidate tools hold more than one distinct value for it;
\* and there are at most 2 questions.
C18_TooManyResultsQuestions ==
    (op = "clarify" /\ phase = "ret" /\ Cardinality(subset) > 3) =>
        LET tools == tools_at(catalog, subset)
            questions == agent_response.questions
            ordered == <<"What voltage do you need?",
                         "Is this for manual use or automation?",
                         "What torque range do you require?",
                         "Do you need a specific IP rating?">>
            dimension == <<"voltage", "application_type", "torque", "ip_rating">>
            held(d) ==
                CASE d = 1 -> {tools[i].voltage : i \in 1..Len(tools)} \ {""}
                  [] d = 2 -> {tools[i].application_type : i \in 1..Len(tools)}
                  [] d = 3 -> {tools[i].torque_range : i \in 1..Len(tools)} \ {"", "NaN"}
                  [] d = 4 -> {tools[i].ip_rating : i \in 1..Len(tools)} \ {""}
        IN  /\ verdict
            /\ Len(questions) <= 2
            /\ \A i \in 1..Len(questions) : \E d \in 1..4 :
                   /\ questions[i] = ordered[d]
                   /\ dimension[d] \notin DOMAIN drawn_filters
                   /\ Cardinality(held(d)) > 1
            /\ \A i, j \in 1..Len(questions) : i < j =>
                   \E d, e \in 1..4 :
                       d < e /\ questions[i] = ordered[d] /\ questions[j] = ordered[e]

\* C19: while a session is neither evicted nor deleted, no step removes a
\* key of its extracted_filters, a fresh-search turn (a query naming a tool
\* keyword) included; and the merged filters of every refinement turn (a
\* query naming no tool keyword) hold every key persisted before it, with the
\* persisted value on the keys the turn's query does not set.
C19_PersistedFilterKeysStay ==
    [][\A sid \in (DOMAIN sessions) \cap (DOMAIN sessions') :
          now - sessions[sid].last_accessed <= SESSION_TIMEOUT =>
              LET before == sessions[sid].extracted_filters
                  history == sessions'[sid].conversation_history
                  recorded_turn ==
                      Len(history) = Len(sessions[sid].conversation_history) + 1
                  current ==
                      CASE history[Len(history)].query = "400V" -> {"voltage"}
                        [] history[Len(history)].query = "portable" -> {"application_type"}
                        [] OTHER -> {}
              IN  /\ DOMAIN before \subseteq DOMAIN sessions'[sid].extracted_filters
                  /\ (recorded_turn /\ history[Len(history)].query # "nutrunner") =>
                         \A k \in DOMAIN before :
                             /\ k \in DOMAIN turn_filters'
                             /\ k \notin current => turn_filters'[k] = before[k]]_vars

\* C19 witness: a clarification turn persisted voltage 400V, a fresh search
\* for "nutrunner" followed and kept it, and the refinement turn "portable"
\* merged it again.
C19_Witness ==
    /\ "s1" \in DOMAIN sessions
    /\ LET history == sessions["s1"].conversation_history
       IN  /\ Len(history) = 3
           /\ history[1].query = "400V"
           /\ history[2].query = "nutrunner"
           /\ "status" \notin DOMAIN history[2].response
           /\ history[3].query = "portable"
    /\ turn_filters = [voltage |-> "400V", application_type |-> "Manual / Portable"]
    /\ DOMAIN sessions["s1"].extracted_filters = {"voltage", "application_type"}

====
